---------------------------- MODULE Spec2Model ----------------------------
(***************************************************************************)
(* A model of EC::Manager (src/src/EC/Manager.hpp): the entity table, the  *)
(* per-component storage vectors, cleanup() and forMatchingSignature().     *)
(*                                                                         *)
(* An entity record is the tuple <bool, size_t, BitsetType> of the code,   *)
(* written here as [alive, dataIndex, bits].                               *)
(*                                                                         *)
(* Spec runs every operation on a table of at most MaxEntities entities.   *)
(* SpecLifecycle runs the operations of the entity lifecycle (addEntity,   *)
(* deleteEntity, cleanup and the tag calls) on a table of at most          *)
(* MaxLifecycleEntities entities.  SpecWatch is Spec with one identifier   *)
(* watched by two history variables.  SpecRead runs the read accessors and *)
(* SpecStored the stored functions (addForMatchingFunction,                *)
(* callForMatchingFunctions, clearForMatchingFunctions) next to the calls  *)
(* that build a table.  SpecMeta evaluates EC::Meta::ContainsAll           *)
(* (src/src/EC/Meta/ContainsAll.hpp) on a pair of type lists.              *)
(* SpecGrow grows the table by two slots at a time.  SpecCleanupSteps runs *)
(* cleanup() statement by statement within the entity lifecycle, and       *)
(* SpecCleanupStepsFair adds that a cleanup() under way keeps running.     *)
(***************************************************************************)
EXTENDS Integers, Sequences, FiniteSets, TLC

\* ----------------------------------------------------------------- bounds
\* Largest currentSize addEntity reaches under Spec and SpecWatch.
MaxEntities == 2
\* Largest currentSize addEntity reaches under SpecLifecycle.
MaxLifecycleEntities == 3
\* Most functions stored by addForMatchingFunction at a time.
MaxFunctions == 2
\* Longest type list given to ContainsAll.
MaxListLen == 2
\* Largest currentSize addEntity reaches under SpecGrow.
MaxGrowEntities == 2

\* ------------------------------------------------------ program constants
\* Manager.hpp:9 and :10 set both to 256; the model scales them down to 1 so
\* that the table grows within MaxEntities.
EC_INIT_ENTITIES_SIZE == 1
EC_GROW_SIZE_AMOUNT == 1

\* The schema the manager is instantiated with: Manager<TypeList<C0>,
\* TypeList<T0>>.
ComponentsList == {"C0"}
TagsList == {"T0"}
Combined == ComponentsList \cup TagsList

\* A component value; DefaultValue is the default-constructed component that
\* std::vector::resize fills new slots with.
Values == {0, 1}
DefaultValue == 0

\* ----------------------------------------------------------------- Bitset
\* EC::Bitset<ComponentsList, TagsList>: one bit per component and per tag.
BitsetType == [Combined -> BOOLEAN]
\* BitsetType{} and Bitset::reset(): every bit cleared.
EmptyBitset == [k \in Combined |-> FALSE]
\* BitsetType::generateBitset<Signature>(): the bit of every type of the
\* signature set, the others cleared.
generateBitset(signature) == [k \in Combined |-> k \in signature]
\* operator& of two bitsets.
BitAnd(a, b) == [k \in Combined |-> a[k] /\ b[k]]

VARIABLES
    entities,           \* EntitiesType: index -> [alive, dataIndex, bits]
    componentsStorage,  \* component -> (slot -> value)
    currentCapacity,
    currentSize,
    lastOp,             \* the last call made, its arguments and its outcome
    watchId,            \* history: the identifier a behaviour watches, or NoId
    watchRemoved,       \* history: removeComponent<C0>(watchId) was called on
                        \* a live entity, and addComponent<C0>(watchId) was not
                        \* called since
    watchQuiet,         \* history: as watchRemoved, and cleanup() was not
                        \* called since either
    forMatchingFunctions, \* the stored closures, in the order they were added
    listA,              \* TTypeListA of the ContainsAll under evaluation
    listB,              \* TTypeListB of the ContainsAll under evaluation
    contains,           \* ContainsAll<listA, listB>::value, or NoValue before
                        \* it is evaluated
    cleanupPc,          \* where a cleanup() run statement by statement is:
                        \* "idle" outside the call, "outer", "inner" or "if"
    cleanupLhs,         \* the local lhs of that cleanup(), 0 outside the call
    cleanupRhs          \* the local rhs of that cleanup(), 0 outside the call

vars == <<entities, componentsStorage, currentCapacity, currentSize, lastOp,
          watchId, watchRemoved, watchQuiet,
          forMatchingFunctions, listA, listB, contains,
          cleanupPc, cleanupLhs, cleanupRhs>>

\* What the calls on the entity table leave alone.
aside == <<forMatchingFunctions, listA, listB, contains,
           cleanupPc, cleanupLhs, cleanupRhs>>

table == <<entities, componentsStorage, currentCapacity, currentSize>>

\* The arguments and outcome of a call; the fields a call does not use keep
\* these values.
NoOp == [op |-> "init", id |-> 0, kind |-> "", val |-> 0, sig |-> {},
         ret |-> 0, fault |-> FALSE, calls |-> << >>]

\* No identifier: a behaviour of Spec watches none.
NoId == 0 - 1
\* No value: ContainsAll was not evaluated.
NoValue == "none"
\* The component the history variables watch on watchId.
WatchedComponent == "C0"
Watched(entityID, component) ==
    entityID = watchId /\ component = WatchedComponent

\* ---------------------------------------------------------------- resize
\* resize() that rebuilds every record, the old ones too.
resizedEntities_allFresh(ents, oldCapacity, newCapacity) ==
    [i \in 0..(newCapacity - 1) |->
        [alive |-> FALSE, dataIndex |-> i, bits |-> EmptyBitset]]

\* The entities after resize(newCapacity), Manager.hpp:83-87: the old records
\* kept, each new slot i set to (false, i, BitsetType{}).
resizedEntities(ents, oldCapacity, newCapacity) ==
    [i \in 0..(newCapacity - 1) |->
        IF i < oldCapacity THEN ents[i]
        ELSE [alive |-> FALSE, dataIndex |-> i, bits |-> EmptyBitset]]

\* The storage after resize(newCapacity), Manager.hpp:79-81: every vector
\* grown, the new slots default-constructed.
resizedStorage(store, oldCapacity, newCapacity) ==
    [c \in ComponentsList |->
        [s \in 0..(newCapacity - 1) |->
            IF s < oldCapacity THEN store[c][s] ELSE DefaultValue]]

\* The state after the constructor: resize(EC_INIT_ENTITIES_SIZE) on an empty
\* manager.
Init ==
    /\ currentCapacity = EC_INIT_ENTITIES_SIZE
    /\ currentSize = 0
    /\ entities = resizedEntities(<< >>, 0, EC_INIT_ENTITIES_SIZE)
    /\ componentsStorage = resizedStorage(<< >>, 0, EC_INIT_ENTITIES_SIZE)
    /\ lastOp = NoOp
    /\ watchId = NoId
    /\ watchRemoved = FALSE
    /\ watchQuiet = FALSE
    /\ forMatchingFunctions = << >>
    /\ listA = << >>
    /\ listB = << >>
    /\ contains = NoValue
    /\ cleanupPc = "idle"
    /\ cleanupLhs = 0
    /\ cleanupRhs = 0

\* ------------------------------------------------------------- accessors
hasEntity(index) == index < currentSize

\* entities.at(index) is reached only when hasEntity(index) holds.
isAlive(index) == hasEntity(index) /\ entities[index].alive

hasComponent(index, component) == entities[index].bits[component]

hasTag(index, tag) == entities[index].bits[tag]

getEntityData(index, component) ==
    componentsStorage[component][entities[index].dataIndex]

\* ------------------------------------------------------------- addEntity
\* addEntity() that also writes the new identifier into the record's dataIndex.
addEntity_ownIndex(limit) ==
    /\ currentSize < limit
    /\ LET grow == currentSize = currentCapacity
           newCapacity == IF grow THEN currentCapacity + EC_GROW_SIZE_AMOUNT
                          ELSE currentCapacity
           ents == IF grow
                   THEN resizedEntities(entities, currentCapacity, newCapacity)
                   ELSE entities
       IN /\ currentCapacity' = newCapacity
          /\ componentsStorage' =
                IF grow
                THEN resizedStorage(componentsStorage, currentCapacity, newCapacity)
                ELSE componentsStorage
          /\ entities' = [ents EXCEPT ![currentSize].alive = TRUE,
                                      ![currentSize].dataIndex = currentSize]
    /\ currentSize' = currentSize + 1
    /\ lastOp' = [NoOp EXCEPT !.op = "addEntity", !.ret = currentSize]
    /\ UNCHANGED aside
    /\ UNCHANGED <<watchId, watchRemoved, watchQuiet>>

\* limit bounds the model, not the code: the largest currentSize reached.
addEntity(limit) ==
    /\ currentSize < limit
    /\ LET grow == currentSize = currentCapacity
           newCapacity == IF grow THEN currentCapacity + EC_GROW_SIZE_AMOUNT
                          ELSE currentCapacity
           ents == IF grow
                   THEN resizedEntities(entities, currentCapacity, newCapacity)
                   ELSE entities
       IN /\ currentCapacity' = newCapacity
          /\ componentsStorage' =
                IF grow
                THEN resizedStorage(componentsStorage, currentCapacity, newCapacity)
                ELSE componentsStorage
          /\ entities' = [ents EXCEPT ![currentSize].alive = TRUE]
    /\ currentSize' = currentSize + 1
    /\ lastOp' = [NoOp EXCEPT !.op = "addEntity", !.ret = currentSize]
    /\ UNCHANGED aside
    /\ UNCHANGED <<watchId, watchRemoved, watchQuiet>>

\* ---------------------------------------------------------- deleteEntity
\* deleteEntity() that also drops the last identifier from the table at once.
deleteEntity_popLast(index) ==
    /\ IF index < currentCapacity
       THEN /\ entities' = [entities EXCEPT ![index].alive = FALSE]
            /\ lastOp' = [NoOp EXCEPT !.op = "deleteEntity", !.id = index]
       ELSE /\ entities' = entities
            /\ lastOp' = [NoOp EXCEPT !.op = "deleteEntity", !.id = index,
                                       !.fault = TRUE]
    /\ currentSize' = IF currentSize > 0 /\ index = currentSize - 1
                      THEN currentSize - 1 ELSE currentSize
    /\ UNCHANGED aside
    /\ UNCHANGED <<componentsStorage, currentCapacity,
                   watchId, watchRemoved, watchQuiet>>

\* entities.at(index) throws std::out_of_range for index >= capacity.
deleteEntity(index) ==
    /\ IF index < currentCapacity
       THEN /\ entities' = [entities EXCEPT ![index].alive = FALSE]
            /\ lastOp' = [NoOp EXCEPT !.op = "deleteEntity", !.id = index]
       ELSE /\ entities' = entities
            /\ lastOp' = [NoOp EXCEPT !.op = "deleteEntity", !.id = index,
                                       !.fault = TRUE]
    /\ UNCHANGED aside
    /\ UNCHANGED <<componentsStorage, currentCapacity, currentSize,
                   watchId, watchRemoved, watchQuiet>>

\* --------------------------------------------------------------- cleanup
\* The inner loop, Manager.hpp:238-247: rhs retreats over the dead records,
\* resetting the bitset of each one it passes; at rhs = 0 on a dead record the
\* call sets currentSize = 0 and returns (emptied).
RECURSIVE cleanupInner(_, _)
cleanupInner(ents, rhs) ==
    IF ents[rhs].alive THEN [ents |-> ents, rhs |-> rhs, emptied |-> FALSE]
    ELSE IF rhs = 0 THEN [ents |-> ents, rhs |-> rhs, emptied |-> TRUE]
    ELSE cleanupInner([ents EXCEPT ![rhs].bits = EmptyBitset], rhs - 1)

\* The swap with the bitset reset at lhs, where the live record now is.
cleanupSwap_resetLhs(ents, lhs, rhs) ==
    [ents EXCEPT ![lhs] = [ents[rhs] EXCEPT !.bits = EmptyBitset],
                 ![rhs] = ents[lhs]]

\* The swap that copies the live record to lhs and leaves the one at rhs as
\* it is.
cleanupSwap_copyOnly(ents, lhs, rhs) ==
    [ents EXCEPT ![lhs] = ents[rhs]]


\* std::swap(entities[lhs], entities.at(rhs)), then the bitset of the record
\* now at rhs reset, Manager.hpp:256-259.
cleanupSwap(ents, lhs, rhs) ==
    [ents EXCEPT ![lhs] = ents[rhs],
                 ![rhs] = [ents[lhs] EXCEPT !.bits = EmptyBitset]]

\* The outer loop, Manager.hpp:236-269; the result is the entities and the
\* currentSize that cleanup() leaves.
RECURSIVE cleanupOuter(_, _, _)
cleanupOuter(ents, lhs, rhs) ==
    IF ~(lhs < rhs) THEN [ents |-> ents, size |-> rhs + 1]
    ELSE LET in == cleanupInner(ents, rhs)
         IN IF in.emptied THEN [ents |-> in.ents, size |-> 0]
            ELSE IF lhs >= in.rhs THEN [ents |-> in.ents, size |-> in.rhs + 1]
            ELSE IF ~in.ents[lhs].alive
                 THEN cleanupOuter(cleanupSwap(in.ents, lhs, in.rhs),
                                   lhs + 1, in.rhs - 1)
                 ELSE cleanupOuter(in.ents, lhs + 1, in.rhs)

\* cleanup() that keeps the survivors in the order of their identifiers: the
\* live records move down to the front, the dead ones follow with their
\* bitsets reset.
cleanupResult_keepOrder(ents, size) ==
    LET live == {i \in 0..(size - 1) : ents[i].alive}
        dead == {i \in 0..(size - 1) : ~ents[i].alive}
        liveAt(p) == CHOOSE i \in live : Cardinality({k \in live : k < i}) = p
        deadAt(p) == CHOOSE i \in dead : Cardinality({k \in dead : k < i}) = p
        n == Cardinality(live)
    IN [ents |-> [p \in DOMAIN ents |->
                    IF p < n THEN ents[liveAt(p)]
                    ELSE IF p < size
                         THEN [ents[deadAt(p - n)] EXCEPT !.bits = EmptyBitset]
                         ELSE ents[p]],
        size |-> n]


\* cleanup() as a function of the table, Manager.hpp:226-270.
cleanupResult(ents, size) ==
    IF size = 0 THEN [ents |-> ents, size |-> size]
    ELSE cleanupOuter(ents, 0, size - 1)

cleanup ==
    /\ LET r == cleanupResult(entities, currentSize)
       IN /\ entities' = r.ents
          /\ currentSize' = r.size
    /\ lastOp' = [NoOp EXCEPT !.op = "cleanup"]
    /\ watchQuiet' = FALSE
    /\ UNCHANGED aside
    /\ UNCHANGED <<componentsStorage, currentCapacity, watchId, watchRemoved>>

\* ------------------------------------------------- components and tags
\* addComponent() that stores the component at the identifier, not at the
\* record's dataIndex.
addComponent_atId(entityID, component, value) ==
    /\ IF ~hasEntity(entityID) \/ ~isAlive(entityID)
       THEN UNCHANGED <<entities, componentsStorage>>
       ELSE /\ entities' = [entities EXCEPT ![entityID].bits[component] = TRUE]
            /\ componentsStorage' =
                 [componentsStorage EXCEPT ![component][entityID] = value]
    /\ lastOp' = [NoOp EXCEPT !.op = "addComponent", !.id = entityID,
                               !.kind = component, !.val = value]
    /\ watchRemoved' = (watchRemoved /\ ~Watched(entityID, component))
    /\ watchQuiet' = (watchQuiet /\ ~Watched(entityID, component))
    /\ UNCHANGED aside
    /\ UNCHANGED <<currentCapacity, currentSize, watchId>>

\* addComponent() that tests hasEntity() alone.
addComponent_noAliveCheck(entityID, component, value) ==
    /\ IF ~hasEntity(entityID)
       THEN UNCHANGED <<entities, componentsStorage>>
       ELSE /\ entities' = [entities EXCEPT ![entityID].bits[component] = TRUE]
            /\ componentsStorage' =
                 [componentsStorage EXCEPT
                    ![component][entities[entityID].dataIndex] = value]
    /\ lastOp' = [NoOp EXCEPT !.op = "addComponent", !.id = entityID,
                               !.kind = component, !.val = value]
    /\ watchRemoved' = (watchRemoved /\ ~Watched(entityID, component))
    /\ watchQuiet' = (watchQuiet /\ ~Watched(entityID, component))
    /\ UNCHANGED aside
    /\ UNCHANGED <<currentCapacity, currentSize, watchId>>

\* removeComponent() that clears the bit of the record at the entity's
\* dataIndex.
removeComponent_atDataIndex(entityID, component) ==
    /\ IF ~hasEntity(entityID) \/ ~isAlive(entityID)
       THEN UNCHANGED entities
       ELSE entities' = [entities EXCEPT
                           ![entities[entityID].dataIndex].bits[component] = FALSE]
    /\ lastOp' = [NoOp EXCEPT !.op = "removeComponent", !.id = entityID,
                               !.kind = component]
    /\ watchRemoved' =
         (watchRemoved \/ (Watched(entityID, component) /\ isAlive(entityID)))
    /\ watchQuiet' =
         (watchQuiet \/ (Watched(entityID, component) /\ isAlive(entityID)))
    /\ UNCHANGED aside
    /\ UNCHANGED <<componentsStorage, currentCapacity, currentSize, watchId>>

\* removeComponent() that also puts a default-constructed component in the
\* entity's slot.
removeComponent_clearValue(entityID, component) ==
    /\ IF ~hasEntity(entityID) \/ ~isAlive(entityID)
       THEN UNCHANGED <<entities, componentsStorage>>
       ELSE /\ entities' = [entities EXCEPT ![entityID].bits[component] = FALSE]
            /\ componentsStorage' =
                 [componentsStorage EXCEPT
                    ![component][entities[entityID].dataIndex] = DefaultValue]
    /\ lastOp' = [NoOp EXCEPT !.op = "removeComponent", !.id = entityID,
                               !.kind = component]
    /\ watchRemoved' =
         (watchRemoved \/ (Watched(entityID, component) /\ isAlive(entityID)))
    /\ watchQuiet' =
         (watchQuiet \/ (Watched(entityID, component) /\ isAlive(entityID)))
    /\ UNCHANGED aside
    /\ UNCHANGED <<currentCapacity, currentSize, watchId>>


addComponent(entityID, component, value) ==
    /\ IF ~hasEntity(entityID) \/ ~isAlive(entityID)
       THEN UNCHANGED <<entities, componentsStorage>>
       ELSE /\ entities' = [entities EXCEPT ![entityID].bits[component] = TRUE]
            /\ componentsStorage' =
                 [componentsStorage EXCEPT
                    ![component][entities[entityID].dataIndex] = value]
    /\ lastOp' = [NoOp EXCEPT !.op = "addComponent", !.id = entityID,
                               !.kind = component, !.val = value]
    /\ watchRemoved' = (watchRemoved /\ ~Watched(entityID, component))
    /\ watchQuiet' = (watchQuiet /\ ~Watched(entityID, component))
    /\ UNCHANGED aside
    /\ UNCHANGED <<currentCapacity, currentSize, watchId>>

removeComponent(entityID, component) ==
    /\ IF ~hasEntity(entityID) \/ ~isAlive(entityID)
       THEN UNCHANGED entities
       ELSE entities' = [entities EXCEPT ![entityID].bits[component] = FALSE]
    /\ lastOp' = [NoOp EXCEPT !.op = "removeComponent", !.id = entityID,
                               !.kind = component]
    /\ watchRemoved' =
         (watchRemoved \/ (Watched(entityID, component) /\ isAlive(entityID)))
    /\ watchQuiet' =
         (watchQuiet \/ (Watched(entityID, component) /\ isAlive(entityID)))
    /\ UNCHANGED aside
    /\ UNCHANGED <<componentsStorage, currentCapacity, currentSize, watchId>>

addTag(entityID, tag) ==
    /\ IF ~hasEntity(entityID) \/ ~isAlive(entityID)
       THEN UNCHANGED entities
       ELSE entities' = [entities EXCEPT ![entityID].bits[tag] = TRUE]
    /\ lastOp' = [NoOp EXCEPT !.op = "addTag", !.id = entityID, !.kind = tag]
    /\ UNCHANGED aside
    /\ UNCHANGED <<componentsStorage, currentCapacity, currentSize,
                   watchId, watchRemoved, watchQuiet>>

removeTag(entityID, tag) ==
    /\ IF ~hasEntity(entityID) \/ ~isAlive(entityID)
       THEN UNCHANGED entities
       ELSE entities' = [entities EXCEPT ![entityID].bits[tag] = FALSE]
    /\ lastOp' = [NoOp EXCEPT !.op = "removeTag", !.id = entityID, !.kind = tag]
    /\ UNCHANGED aside
    /\ UNCHANGED <<componentsStorage, currentCapacity, currentSize,
                   watchId, watchRemoved, watchQuiet>>

\* -------------------------------------------------- forMatchingSignature
\* EC::Meta::Matching<Signature, ComponentsList>: the components of the
\* signature, which are the arguments the function is called with.
SignatureComponents(signature) == signature \cap ComponentsList

\* Helper::call, Manager.hpp:377-383: function(entityID, getEntityData<Types>
\* (entityID)...).  The function of the model records its arguments.
helperCall(entityID, signature) ==
    [id |-> entityID,
     data |-> [c \in SignatureComponents(signature) |-> getEntityData(entityID, c)]]

\* The scan without the test of the alive flag.
RECURSIVE matchingScan_deadToo(_, _, _)
matchingScan_deadToo(i, signatureBitset, acc) ==
    IF ~(i < currentSize) THEN acc
    ELSE IF BitAnd(signatureBitset, entities[i].bits) = signatureBitset
         THEN matchingScan_deadToo(i + 1, signatureBitset,
                  Append(acc, helperCall(i, {k \in Combined : signatureBitset[k]})))
         ELSE matchingScan_deadToo(i + 1, signatureBitset, acc)

\* The scan of Manager.hpp:415-426 from index i on, appending to the calls
\* made so far.
RECURSIVE matchingScan(_, _, _)
matchingScan(i, signatureBitset, acc) ==
    IF ~(i < currentSize) THEN acc
    ELSE IF ~entities[i].alive THEN matchingScan(i + 1, signatureBitset, acc)
    ELSE IF BitAnd(signatureBitset, entities[i].bits) = signatureBitset
         THEN matchingScan(i + 1, signatureBitset,
                  Append(acc, helperCall(i, {k \in Combined : signatureBitset[k]})))
         ELSE matchingScan(i + 1, signatureBitset, acc)

forMatchingSignature(signature) ==
    /\ lastOp' = [NoOp EXCEPT !.op = "forMatchingSignature", !.sig = signature,
                    !.calls = matchingScan(0, generateBitset(signature), << >>)]
    /\ UNCHANGED aside
    /\ UNCHANGED <<entities, componentsStorage, currentCapacity, currentSize,
                   watchId, watchRemoved, watchQuiet>>

\* ------------------------------------------------------------ read calls
\* The outcome of a call of a read accessor: the value it returns, or the
\* std::out_of_range that std::vector::at throws.
returned(op, index, kind, value) ==
    [NoOp EXCEPT !.op = op, !.id = index, !.kind = kind, !.ret = value]

thrown(op, index, kind) ==
    [NoOp EXCEPT !.op = op, !.id = index, !.kind = kind, !.fault = TRUE]

\* entities.at(index) and the storage vectors' at(slot) throw at and beyond
\* the size of the vector, which is currentCapacity for each of them.
atThrows(index) == ~(index < currentCapacity)

call_hasEntity(index) ==
    /\ lastOp' = returned("hasEntity", index, "", index < currentSize)
    /\ UNCHANGED aside
    /\ UNCHANGED <<entities, componentsStorage, currentCapacity, currentSize,
                   watchId, watchRemoved, watchQuiet>>

\* isAlive() that reads entities.at(index) without asking hasEntity() first.
call_isAlive_noExistsCheck(index) ==
    /\ lastOp' = IF atThrows(index) THEN thrown("isAlive", index, "")
                 ELSE returned("isAlive", index, "", entities[index].alive)
    /\ UNCHANGED aside
    /\ UNCHANGED <<entities, componentsStorage, currentCapacity, currentSize,
                   watchId, watchRemoved, watchQuiet>>

\* hasEntity(index) && ...: entities.at(index) is evaluated only when
\* hasEntity(index) is true.
call_isAlive(index) ==
    /\ lastOp' = IF ~(index < currentSize)
                 THEN returned("isAlive", index, "", FALSE)
                 ELSE IF atThrows(index) THEN thrown("isAlive", index, "")
                 ELSE returned("isAlive", index, "", entities[index].alive)
    /\ UNCHANGED aside
    /\ UNCHANGED <<entities, componentsStorage, currentCapacity, currentSize,
                   watchId, watchRemoved, watchQuiet>>

call_getEntityInfo(index) ==
    /\ lastOp' = IF atThrows(index) THEN thrown("getEntityInfo", index, "")
                 ELSE returned("getEntityInfo", index, "", entities[index])
    /\ UNCHANGED aside
    /\ UNCHANGED <<entities, componentsStorage, currentCapacity, currentSize,
                   watchId, watchRemoved, watchQuiet>>

\* entities.at(index), then at(dataIndex) on the component's vector.
call_getEntityData(index, component) ==
    /\ lastOp' = IF atThrows(index)
                 THEN thrown("getEntityData", index, component)
                 ELSE IF atThrows(entities[index].dataIndex)
                 THEN thrown("getEntityData", index, component)
                 ELSE returned("getEntityData", index, component,
                               getEntityData(index, component))
    /\ UNCHANGED aside
    /\ UNCHANGED <<entities, componentsStorage, currentCapacity, currentSize,
                   watchId, watchRemoved, watchQuiet>>

\* hasComponent() that answers false for an index beyond the storage.
call_hasComponent_falseBeyond(index, component) ==
    /\ lastOp' = IF atThrows(index)
                 THEN returned("hasComponent", index, component, FALSE)
                 ELSE returned("hasComponent", index, component,
                               hasComponent(index, component))
    /\ UNCHANGED aside
    /\ UNCHANGED <<entities, componentsStorage, currentCapacity, currentSize,
                   watchId, watchRemoved, watchQuiet>>

call_hasComponent(index, component) ==
    /\ lastOp' = IF atThrows(index)
                 THEN thrown("hasComponent", index, component)
                 ELSE returned("hasComponent", index, component,
                               hasComponent(index, component))
    /\ UNCHANGED aside
    /\ UNCHANGED <<entities, componentsStorage, currentCapacity, currentSize,
                   watchId, watchRemoved, watchQuiet>>

call_hasTag(index, tag) ==
    /\ lastOp' = IF atThrows(index) THEN thrown("hasTag", index, tag)
                 ELSE returned("hasTag", index, tag, hasTag(index, tag))
    /\ UNCHANGED aside
    /\ UNCHANGED <<entities, componentsStorage, currentCapacity, currentSize,
                   watchId, watchRemoved, watchQuiet>>


\* ------------------------------------------------- the stored functions
\* The functions a caller stores.
Functions == {"f", "g"}

\* The closure addForMatchingFunction() stores, Manager.hpp:462: it captures
\* the function, the signature's bitset and the helper, whose types are the
\* components of the signature.  addedWhenEmpty is history, not captured
\* state: the table held no entity when the closure was stored.
closureOf(signature, function) ==
    [function |-> function,
     signatureBitset |-> generateBitset(signature),
     helper |-> SignatureComponents(signature),
     addedWhenEmpty |-> currentSize = 0]

\* helper.callInstance, Manager.hpp:385-389: the stored function called with
\* the identifier and the entity's components of the helper's types.
callInstance(entityID, closure) ==
    [function |-> closure.function,
     id |-> entityID,
     data |-> [c \in closure.helper |-> getEntityData(entityID, c)]]

\* The stored loop without the test of the alive flag.
RECURSIVE closureScan_deadToo(_, _, _)
closureScan_deadToo(i, closure, acc) ==
    IF ~(i < currentSize) THEN acc
    ELSE IF BitAnd(closure.signatureBitset, entities[i].bits)
               = closure.signatureBitset
         THEN closureScan_deadToo(i + 1, closure,
                                  Append(acc, callInstance(i, closure)))
         ELSE closureScan_deadToo(i + 1, closure, acc)

\* The body of the stored closure, Manager.hpp:463-474, from index i on: the
\* loop reads the table as it is when the closure runs.
RECURSIVE closureScan(_, _, _)
closureScan(i, closure, acc) ==
    IF ~(i < currentSize) THEN acc
    ELSE IF ~entities[i].alive THEN closureScan(i + 1, closure, acc)
    ELSE IF BitAnd(closure.signatureBitset, entities[i].bits)
               = closure.signatureBitset
         THEN closureScan(i + 1, closure, Append(acc, callInstance(i, closure)))
         ELSE closureScan(i + 1, closure, acc)

\* MaxFunctions bounds the model, not the code: the most closures stored.
addForMatchingFunction(signature, function) ==
    /\ Len(forMatchingFunctions) < MaxFunctions
    /\ forMatchingFunctions' =
          Append(forMatchingFunctions, closureOf(signature, function))
    /\ lastOp' = [NoOp EXCEPT !.op = "addForMatchingFunction"]
    /\ UNCHANGED <<entities, componentsStorage, currentCapacity, currentSize,
                   watchId, watchRemoved, watchQuiet, listA, listB, contains,
                   cleanupPc, cleanupLhs, cleanupRhs>>

\* The loop of callForMatchingFunctions(), Manager.hpp:494-497, from the n-th
\* stored closure on.
RECURSIVE callStored(_, _)
callStored(n, acc) ==
    IF n > Len(forMatchingFunctions) THEN acc
    ELSE callStored(n + 1, closureScan(0, forMatchingFunctions[n], acc))

callForMatchingFunctions ==
    /\ lastOp' = [NoOp EXCEPT !.op = "callForMatchingFunctions",
                               !.calls = callStored(1, << >>)]
    /\ UNCHANGED aside
    /\ UNCHANGED <<entities, componentsStorage, currentCapacity, currentSize,
                   watchId, watchRemoved, watchQuiet>>

clearForMatchingFunctions ==
    /\ forMatchingFunctions' = << >>
    /\ lastOp' = [NoOp EXCEPT !.op = "clearForMatchingFunctions"]
    /\ UNCHANGED <<entities, componentsStorage, currentCapacity, currentSize,
                   watchId, watchRemoved, watchQuiet, listA, listB, contains,
                   cleanupPc, cleanupLhs, cleanupRhs>>


\* ------------------------------------------------------------ ContainsAll
\* The types of the lists: the structs of MetaTest.cpp.
Types == {"C0", "C1", "C2", "C3"}

\* EC::Meta::TypeList<...>: the lists of at most MaxListLen types, repeats
\* allowed.
TypeLists == UNION {[1..n -> Types] : n \in 0..MaxListLen}

\* EC::Meta::Contains<Type, TTypeList>::value: Type is one of the types of the
\* list.
RECURSIVE Contains(_, _)
Contains(Type, TTypeList) ==
    IF TTypeList = << >> THEN FALSE
    ELSE IF Head(TTypeList) = Type THEN TRUE
    ELSE Contains(Type, Tail(TTypeList))

\* ContainsAllHelper that looks at the first type of the list alone.
ContainsAllHelper_firstOnly(TTypeListA, TTypeListB) ==
    IF TTypeListA = << >> THEN TRUE
    ELSE Contains(Head(TTypeListA), TTypeListB)

\* ContainsAllHelper, ContainsAll.hpp:17-35: std::true_type for the empty
\* list; for <Type, Types...> the helper of <Types...> when TTypeListB
\* contains Type, std::false_type otherwise.
RECURSIVE ContainsAllHelper(_, _)
ContainsAllHelper(TTypeListA, TTypeListB) ==
    IF TTypeListA = << >> THEN TRUE
    ELSE IF Contains(Head(TTypeListA), TTypeListB)
         THEN ContainsAllHelper(Tail(TTypeListA), TTypeListB)
         ELSE FALSE

ContainsAll(TTypeListA, TTypeListB) == ContainsAllHelper(TTypeListA, TTypeListB)

\* The two lists of an instantiation ContainsAll<listA, listB>.
InitMeta ==
    /\ currentCapacity = EC_INIT_ENTITIES_SIZE
    /\ currentSize = 0
    /\ entities = resizedEntities(<< >>, 0, EC_INIT_ENTITIES_SIZE)
    /\ componentsStorage = resizedStorage(<< >>, 0, EC_INIT_ENTITIES_SIZE)
    /\ lastOp = NoOp
    /\ watchId = NoId
    /\ watchRemoved = FALSE
    /\ watchQuiet = FALSE
    /\ forMatchingFunctions = << >>
    /\ listA \in TypeLists
    /\ listB \in TypeLists
    /\ contains = NoValue
    /\ cleanupPc = "idle"
    /\ cleanupLhs = 0
    /\ cleanupRhs = 0

\* bool contains = EC::Meta::ContainsAll<listA, listB>::value.
evaluateContainsAll ==
    /\ lastOp.op = "init"
    /\ contains' = ContainsAll(listA, listB)
    /\ lastOp' = [NoOp EXCEPT !.op = "ContainsAll"]
    /\ UNCHANGED <<entities, componentsStorage, currentCapacity, currentSize,
                   watchId, watchRemoved, watchQuiet,
                   forMatchingFunctions, listA, listB,
                   cleanupPc, cleanupLhs, cleanupRhs>>

NextMeta == evaluateContainsAll

SpecMeta == InitMeta /\ [][NextMeta]_vars


Next ==
    \/ addEntity(MaxEntities)
    \/ \E index \in 0..currentCapacity : deleteEntity(index)
    \/ cleanup
    \/ \E entityID \in 0..currentCapacity, c \in ComponentsList, v \in Values :
          addComponent(entityID, c, v)
    \/ \E entityID \in 0..currentCapacity, c \in ComponentsList :
          removeComponent(entityID, c)
    \/ \E entityID \in 0..currentCapacity, t \in TagsList : addTag(entityID, t)
    \/ \E entityID \in 0..currentCapacity, t \in TagsList : removeTag(entityID, t)
    \/ \E signature \in SUBSET Combined : forMatchingSignature(signature)

Spec == Init /\ [][Next]_vars

\* The entity lifecycle alone, on a larger table.
NextLifecycle ==
    \/ addEntity(MaxLifecycleEntities)
    \/ \E index \in 0..currentCapacity : deleteEntity(index)
    \/ cleanup
    \/ \E entityID \in 0..currentCapacity, t \in TagsList : addTag(entityID, t)
    \/ \E entityID \in 0..currentCapacity, t \in TagsList : removeTag(entityID, t)

SpecLifecycle == Init /\ [][NextLifecycle]_vars

\* Spec with one identifier watched from the start.
InitWatch ==
    /\ currentCapacity = EC_INIT_ENTITIES_SIZE
    /\ currentSize = 0
    /\ entities = resizedEntities(<< >>, 0, EC_INIT_ENTITIES_SIZE)
    /\ componentsStorage = resizedStorage(<< >>, 0, EC_INIT_ENTITIES_SIZE)
    /\ lastOp = NoOp
    /\ watchId \in 0..(MaxEntities - 1)
    /\ watchRemoved = FALSE
    /\ watchQuiet = FALSE
    /\ forMatchingFunctions = << >>
    /\ listA = << >>
    /\ listB = << >>
    /\ contains = NoValue
    /\ cleanupPc = "idle"
    /\ cleanupLhs = 0
    /\ cleanupRhs = 0

SpecWatch == InitWatch /\ [][Next]_vars

\* The read accessors, on the tables that creation, deletion, cleanup and
\* addComponent build.
NextRead ==
    \/ addEntity(MaxEntities)
    \/ \E index \in 0..currentCapacity : deleteEntity(index)
    \/ cleanup
    \/ \E entityID \in 0..currentCapacity, c \in ComponentsList, v \in Values :
          addComponent(entityID, c, v)
    \/ \E index \in 0..currentCapacity : call_hasEntity(index)
    \/ \E index \in 0..currentCapacity : call_isAlive(index)
    \/ \E index \in 0..currentCapacity : call_getEntityInfo(index)
    \/ \E index \in 0..currentCapacity, c \in ComponentsList :
          call_getEntityData(index, c)
    \/ \E index \in 0..currentCapacity, c \in ComponentsList :
          call_hasComponent(index, c)
    \/ \E index \in 0..currentCapacity, t \in TagsList : call_hasTag(index, t)

SpecRead == Init /\ [][NextRead]_vars


\* The stored functions, on the tables that creation, deletion, cleanup and
\* the adding calls build.
NextStored ==
    \/ addEntity(MaxEntities)
    \/ \E index \in 0..currentCapacity : deleteEntity(index)
    \/ cleanup
    \/ \E entityID \in 0..currentCapacity, c \in ComponentsList, v \in Values :
          addComponent(entityID, c, v)
    \/ \E entityID \in 0..currentCapacity, t \in TagsList : addTag(entityID, t)
    \/ \E signature \in SUBSET Combined, function \in Functions :
          addForMatchingFunction(signature, function)
    \/ callForMatchingFunctions
    \/ clearForMatchingFunctions

SpecStored == Init /\ [][NextStored]_vars


\* ------------------------------------------------- growth by several slots
\* EC_GROW_SIZE_AMOUNT as SpecGrow scales it: a growth allocates the slot of
\* the new entity and one slot more.
GrowSizeAmount == 2

\* addEntity(), Manager.hpp:100-110, of a build whose EC_GROW_SIZE_AMOUNT is
\* growSize.  limit bounds the model, not the code.
addEntityGrowing(limit, growSize) ==
    /\ currentSize < limit
    /\ LET grow == currentSize = currentCapacity
           newCapacity == IF grow THEN currentCapacity + growSize
                          ELSE currentCapacity
           ents == IF grow
                   THEN resizedEntities(entities, currentCapacity, newCapacity)
                   ELSE entities
       IN /\ currentCapacity' = newCapacity
          /\ componentsStorage' =
                IF grow
                THEN resizedStorage(componentsStorage, currentCapacity, newCapacity)
                ELSE componentsStorage
          /\ entities' = [ents EXCEPT ![currentSize].alive = TRUE]
    /\ currentSize' = currentSize + 1
    /\ lastOp' = [NoOp EXCEPT !.op = "addEntity", !.ret = currentSize]
    /\ UNCHANGED aside
    /\ UNCHANGED <<watchId, watchRemoved, watchQuiet>>

\* The calls that build and change a table, growing by GrowSizeAmount.
NextGrow ==
    \/ addEntityGrowing(MaxGrowEntities, GrowSizeAmount)
    \/ \E index \in 0..currentCapacity : deleteEntity(index)
    \/ cleanup
    \/ \E entityID \in 0..currentCapacity, c \in ComponentsList, v \in Values :
          addComponent(entityID, c, v)
    \/ \E entityID \in 0..currentCapacity, t \in TagsList : addTag(entityID, t)

SpecGrow == Init /\ [][NextGrow]_vars


\* ------------------------------------------- cleanup(), statement by statement
\* std::size_t arithmetic wraps; the model scales its width down to 4 bits.
SizeModulus == 16
sizeInc(x) == (x + 1) % SizeModulus
sizeDec(x) == (x - 1) % SizeModulus

\* What a step of cleanup() leaves alone besides the table and its locals.
cleanupFrame ==
    <<componentsStorage, currentCapacity, watchId, watchRemoved, watchQuiet,
      forMatchingFunctions, listA, listB, contains>>

\* Manager.hpp:228-234: return at once on an empty table, else set rhs and
\* lhs and go to the outer loop.
cleanupEnter ==
    /\ cleanupPc = "idle"
    /\ IF currentSize = 0
       THEN UNCHANGED <<cleanupPc, cleanupLhs, cleanupRhs>>
       ELSE /\ cleanupRhs' = sizeDec(currentSize)
            /\ cleanupLhs' = 0
            /\ cleanupPc' = "outer"
    /\ lastOp' = [NoOp EXCEPT !.op = "cleanup"]
    /\ UNCHANGED <<entities, currentSize>>
    /\ UNCHANGED cleanupFrame

\* Manager.hpp:236 and :269: the test of the outer loop; when it fails,
\* currentSize = rhs + 1 and the call returns.
cleanupWhileOuter ==
    /\ cleanupPc = "outer"
    /\ IF cleanupLhs < cleanupRhs
       THEN /\ cleanupPc' = "inner"
            /\ UNCHANGED <<currentSize, cleanupLhs, cleanupRhs>>
       ELSE /\ currentSize' = sizeInc(cleanupRhs)
            /\ cleanupPc' = "idle"
            /\ cleanupLhs' = 0
            /\ cleanupRhs' = 0
    /\ UNCHANGED <<entities, lastOp>>
    /\ UNCHANGED cleanupFrame

\* The inner loop that decrements rhs without testing rhs == 0 first.
cleanupWhileInner_noZeroTest ==
    /\ cleanupPc = "inner"
    /\ IF ~entities[cleanupRhs].alive
       THEN /\ entities' = [entities EXCEPT ![cleanupRhs].bits = EmptyBitset]
            /\ cleanupRhs' = sizeDec(cleanupRhs)
            /\ UNCHANGED <<currentSize, cleanupPc, cleanupLhs>>
       ELSE /\ cleanupPc' = "if"
            /\ UNCHANGED <<entities, currentSize, cleanupLhs, cleanupRhs>>
    /\ UNCHANGED lastOp
    /\ UNCHANGED cleanupFrame

\* Manager.hpp:238-247: one test of the inner loop and, on a dead record, its
\* body: at rhs == 0 currentSize = 0 and the call returns, else the record's
\* bitset is reset and rhs decremented.
cleanupWhileInner ==
    /\ cleanupPc = "inner"
    /\ IF ~entities[cleanupRhs].alive
       THEN IF cleanupRhs = 0
            THEN /\ currentSize' = 0
                 /\ cleanupPc' = "idle"
                 /\ cleanupLhs' = 0
                 /\ cleanupRhs' = 0
                 /\ UNCHANGED entities
            ELSE /\ entities' = [entities EXCEPT ![cleanupRhs].bits = EmptyBitset]
                 /\ cleanupRhs' = sizeDec(cleanupRhs)
                 /\ UNCHANGED <<currentSize, cleanupPc, cleanupLhs>>
       ELSE /\ cleanupPc' = "if"
            /\ UNCHANGED <<entities, currentSize, cleanupLhs, cleanupRhs>>
    /\ UNCHANGED lastOp
    /\ UNCHANGED cleanupFrame

\* Manager.hpp:248-266 and :269: break (then currentSize = rhs + 1 and
\* return) when lhs >= rhs; else swap a dead record at lhs with the live one
\* at rhs, reset the bitset now at rhs, ++lhs, --rhs; else ++lhs.
cleanupIf ==
    /\ cleanupPc = "if"
    /\ IF cleanupLhs >= cleanupRhs
       THEN /\ currentSize' = sizeInc(cleanupRhs)
            /\ cleanupPc' = "idle"
            /\ cleanupLhs' = 0
            /\ cleanupRhs' = 0
            /\ UNCHANGED entities
       ELSE IF ~entities[cleanupLhs].alive
       THEN /\ entities' = cleanupSwap(entities, cleanupLhs, cleanupRhs)
            /\ cleanupLhs' = sizeInc(cleanupLhs)
            /\ cleanupRhs' = sizeDec(cleanupRhs)
            /\ cleanupPc' = "outer"
            /\ UNCHANGED currentSize
       ELSE /\ cleanupLhs' = sizeInc(cleanupLhs)
            /\ cleanupPc' = "outer"
            /\ UNCHANGED <<entities, currentSize, cleanupRhs>>
    /\ UNCHANGED lastOp
    /\ UNCHANGED cleanupFrame

\* A step of a cleanup() that is under way.
cleanupRun == cleanupWhileOuter \/ cleanupWhileInner \/ cleanupIf

\* The entity lifecycle with cleanup() run statement by statement; the other
\* calls are made between calls of cleanup(), never within one.
NextCleanupSteps ==
    \/ cleanupPc = "idle" /\ addEntity(MaxLifecycleEntities)
    \/ cleanupPc = "idle" /\ \E index \in 0..currentCapacity : deleteEntity(index)
    \/ cleanupPc = "idle" /\ \E entityID \in 0..currentCapacity, t \in TagsList :
                                addTag(entityID, t)
    \/ cleanupEnter
    \/ cleanupWhileOuter
    \/ cleanupWhileInner
    \/ cleanupIf

SpecCleanupSteps == Init /\ [][NextCleanupSteps]_vars

\* A call of cleanup() that has started keeps running: the program has one
\* thread and the loops hold no wait.
SpecCleanupStepsFair == SpecCleanupSteps /\ WF_vars(cleanupRun)


\* ------------------------------------------------------------ properties
\* The identifiers of the live entities of a table.
LiveIdsOf(ents, size) == {i \in 0..(size - 1) : ents[i].alive}
LiveIds == LiveIdsOf(entities, currentSize)

\* The identifiers the handler was called with, in the order of the calls.
CalledIds == {lastOp.calls[n].id : n \in 1..Len(lastOp.calls)}

\* C1: when cleanup() returns, currentSize is the number of entities that were
\* alive before the call and every identifier below currentSize is alive.
C1_CompactLeavesOnlyLive ==
    [][lastOp'.op = "cleanup" =>
          /\ currentSize' = Cardinality(LiveIds)
          /\ \A i \in 0..(currentSize' - 1) : entities'[i].alive]_vars

\* C2: cleanup() keeps the record of every live entity: each record alive
\* before the call is, whole (alive, dataIndex, bits), the record of an
\* identifier below currentSize afterwards, as many entities are alive as
\* before, the storage is unchanged, and so the component read through the
\* new identifier is the one read through the old.
C2_CompactPreservesRecords ==
    [][lastOp'.op = "cleanup" =>
          /\ componentsStorage' = componentsStorage
          /\ Cardinality(LiveIdsOf(entities', currentSize')) = Cardinality(LiveIds)
          /\ \A i \in LiveIds :
                \E j \in LiveIdsOf(entities', currentSize') :
                   /\ entities'[j] = entities[i]
                   /\ \A c \in ComponentsList :
                         componentsStorage'[c][entities'[j].dataIndex]
                            = getEntityData(i, c)]_vars

\* C2 witness: cleanup() has just moved a live entity that owns its component,
\* with a value other than the default, to a new identifier.
C2_Witness ==
    /\ lastOp.op = "cleanup"
    /\ \E i \in LiveIds :
          /\ entities[i].dataIndex # i
          /\ hasComponent(i, "C0") /\ hasTag(i, "T0")
          /\ getEntityData(i, "C0") # DefaultValue

\* C3: the entity addEntity() returns exists, is alive and has no component
\* and no tag.
C3_CreatedEntityIsEmpty ==
    lastOp.op = "addEntity" =>
        /\ hasEntity(lastOp.ret)
        /\ isAlive(lastOp.ret)
        /\ \A c \in ComponentsList : ~hasComponent(lastOp.ret, c)
        /\ \A t \in TagsList : ~hasTag(lastOp.ret, t)

\* C4: forMatchingSignature<S> calls the function exactly once for each live
\* identifier below currentSize whose entity has every component and tag of S,
\* and for no other identifier.
C4_MatchingCallsExactlyLiveSupersets ==
    lastOp.op = "forMatchingSignature" =>
        LET expected == {i \in 0..(currentSize - 1) :
                            /\ entities[i].alive
                            /\ \A k \in lastOp.sig : entities[i].bits[k]}
        IN /\ CalledIds = expected
           /\ Len(lastOp.calls) = Cardinality(expected)

\* C4 witness: a scan for the tag alone has called the function for a live
\* tagged entity and passed over a tagged entity that is deleted and not yet
\* cleaned up.
C4_Witness ==
    /\ lastOp.op = "forMatchingSignature"
    /\ lastOp.sig = {"T0"}
    /\ Len(lastOp.calls) = 1
    /\ \E i \in 0..(currentSize - 1) : ~entities[i].alive /\ hasTag(i, "T0")

\* C5: live entities have pairwise distinct dataIndex values, each below the
\* capacity.
C5_LiveDataSlotsDistinct ==
    \A i \in LiveIds :
       /\ entities[i].dataIndex \in 0..(currentCapacity - 1)
       /\ \A j \in LiveIds : i # j => entities[i].dataIndex # entities[j].dataIndex

\* C5 witness: after growth and a cleanup() that swapped records, two entities
\* are alive and one of them sits at an identifier other than its dataIndex.
C5_Witness ==
    /\ currentCapacity > EC_INIT_ENTITIES_SIZE
    /\ Cardinality(LiveIds) >= 2
    /\ \E i \in LiveIds : entities[i].dataIndex # i

\* C6: cleanup() called right after cleanup() changes nothing.
C6_CompactIdempotent ==
    [][(lastOp.op = "cleanup" /\ lastOp'.op = "cleanup") => UNCHANGED table]_vars

\* C7: deleteEntity(id) on an existing identifier leaves it existing and not
\* alive, and an existing identifier that is not alive stays so through every
\* call other than cleanup().
C7_DeletedStaysDeadUntilCompact ==
    [][\A id \in 0..(currentSize - 1) :
          /\ (lastOp'.op = "deleteEntity" /\ lastOp'.id = id) =>
                (hasEntity(id) /\ ~isAlive(id))'
          /\ (~isAlive(id) /\ lastOp'.op # "cleanup") =>
                (hasEntity(id) /\ ~isAlive(id))']_vars

\* C7 witness: deleteEntity() has just tombstoned an existing identifier
\* while another entity is alive.
C7_Witness ==
    /\ lastOp.op = "deleteEntity"
    /\ hasEntity(lastOp.id) /\ ~isAlive(lastOp.id)
    /\ LiveIds # {}

\* C8: addComponent<K>(id, v) on a live entity sets its K bit and makes v the
\* K value read through id, and leaves the K value read through every other
\* live entity as it was.
C8_AddComponentRoundTrip ==
    [][\A id \in LiveIds, c \in ComponentsList :
          (lastOp'.op = "addComponent" /\ lastOp'.id = id /\ lastOp'.kind = c) =>
             /\ hasComponent(id, c)'
             /\ getEntityData(id, c)' = lastOp'.val
             /\ \A j \in LiveIds \ {id} :
                   getEntityData(j, c)' = getEntityData(j, c)]_vars

\* C8 witness: addComponent() has just written a value for a live entity whose
\* dataIndex differs from its identifier, while another live entity owns a
\* different value.
C8_Witness ==
    /\ lastOp.op = "addComponent"
    /\ isAlive(lastOp.id)
    /\ entities[lastOp.id].dataIndex # lastOp.id
    /\ getEntityData(lastOp.id, lastOp.kind) = lastOp.val
    /\ \E j \in LiveIds \ {lastOp.id} :
          /\ hasComponent(j, lastOp.kind)
          /\ getEntityData(j, lastOp.kind) # lastOp.val

\* C9 as claimed: after removeComponent<K>(id) on a live entity id has no K,
\* and no scan whose signature has K calls the function for id until
\* addComponent<K>(id) is called.
C9_RemovedUntilAddedAgain ==
    /\ (lastOp.op = "removeComponent" /\ isAlive(lastOp.id)) =>
          ~hasComponent(lastOp.id, lastOp.kind)
    /\ (/\ watchRemoved
        /\ lastOp.op = "forMatchingSignature"
        /\ WatchedComponent \in lastOp.sig) => watchId \notin CalledIds

\* C9 as amended: after removeComponent<K>(id) on a live entity id has no K,
\* and no scan whose signature has K calls the function for id until
\* addComponent<K>(id) or cleanup() is called.
C9_RemovedUntilAddedOrCompacted ==
    /\ (lastOp.op = "removeComponent" /\ isAlive(lastOp.id)) =>
          ~hasComponent(lastOp.id, lastOp.kind)
    /\ (/\ watchQuiet
        /\ lastOp.op = "forMatchingSignature"
        /\ WatchedComponent \in lastOp.sig) => watchId \notin CalledIds

\* C9 witness: a scan for the component has called the function for another
\* entity and not for the watched one, which is alive and had its component
\* removed.
C9_Witness ==
    /\ watchQuiet
    /\ isAlive(watchId)
    /\ lastOp.op = "forMatchingSignature"
    /\ WatchedComponent \in lastOp.sig
    /\ lastOp.calls # << >>

\* C10: addComponent, removeComponent, addTag and removeTag called with an
\* identifier that does not exist or whose entity is not alive fault nothing
\* and leave the table as it was.
C10_InvalidEntityIgnored ==
    [][(/\ lastOp'.op \in {"addComponent", "removeComponent", "addTag", "removeTag"}
        /\ ~hasEntity(lastOp'.id) \/ ~isAlive(lastOp'.id))
          => (UNCHANGED table /\ ~lastOp'.fault)]_vars

\* C10 witness: addComponent() has just been called with an identifier beyond
\* the capacity and a value other than the default.
C10_Witness ==
    /\ lastOp.op = "addComponent"
    /\ lastOp.id >= currentCapacity
    /\ lastOp.val # DefaultValue
    /\ ~lastOp.fault

\* C11: deleteEntity called with an identifier that does not exist or whose
\* entity is not alive faults nothing and leaves the table as it was.
C11_DeleteInvalidIgnored ==
    [][(/\ lastOp'.op = "deleteEntity"
        /\ ~hasEntity(lastOp'.id) \/ ~isAlive(lastOp'.id))
          => (UNCHANGED table /\ ~lastOp'.fault)]_vars

\* C12 as claimed: the record of the entity addEntity() returns has its
\* identifier as dataIndex.
C12_CreatedDataIndexIsId ==
    lastOp.op = "addEntity" => entities[lastOp.ret].dataIndex = lastOp.ret

\* C12 as amended: the record of the entity addEntity() returns has a
\* dataIndex below the capacity that no other live entity has; it is the
\* identifier when the call grew the table, and otherwise the dataIndex the
\* slot held before the call.
C12_CreatedDataIndexIsFree ==
    [][lastOp'.op = "addEntity" =>
          /\ entities'[currentSize].dataIndex \in 0..(currentCapacity' - 1)
          /\ \A j \in LiveIds :
                entities'[j].dataIndex # entities'[currentSize].dataIndex
          /\ IF currentSize = currentCapacity
             THEN entities'[currentSize].dataIndex = currentSize
             ELSE entities'[currentSize].dataIndex
                     = entities[currentSize].dataIndex]_vars

\* C12 witness: addEntity() has just returned an identifier whose record has
\* another dataIndex, next to a live entity that cleanup() moved.
C12_Witness ==
    /\ lastOp.op = "addEntity"
    /\ entities[lastOp.ret].dataIndex # lastOp.ret
    /\ \E j \in LiveIds \ {lastOp.ret} : entities[j].dataIndex # j

\* The read accessors that reach entities.at(index) unguarded.
BoundsCheckedReads == {"getEntityInfo", "getEntityData", "hasComponent", "hasTag"}

\* C13: getEntityInfo, hasComponent, hasTag and getEntityData called with an
\* identifier at or beyond the capacity end in a fault, return no value, and
\* leave the table as it was.
C13_ReadBeyondCapacityFaults ==
    [][(lastOp'.op \in BoundsCheckedReads /\ lastOp'.id >= currentCapacity) =>
          /\ lastOp'.fault
          /\ lastOp'.ret = NoOp.ret
          /\ UNCHANGED table]_vars

\* C13 witness: hasComponent() has just faulted on an identifier beyond the
\* capacity while a live entity owns the component.
C13_Witness ==
    /\ lastOp.op = "hasComponent"
    /\ lastOp.id >= currentCapacity
    /\ lastOp.fault
    /\ \E i \in LiveIds : hasComponent(i, lastOp.kind)

\* C15: hasEntity(id) returns true exactly for id < currentSize, isAlive(id)
\* returns true exactly for an existing identifier whose alive flag is set,
\* and neither faults, whatever the identifier.
C15_ExistsAndAliveTotal ==
    /\ lastOp.op = "hasEntity" =>
          /\ ~lastOp.fault
          /\ lastOp.ret = (lastOp.id \in 0..(currentSize - 1))
    /\ lastOp.op = "isAlive" =>
          /\ ~lastOp.fault
          /\ lastOp.ret = (lastOp.id \in LiveIds)

\* C15 witness: isAlive() has just returned false without a fault for an
\* identifier beyond the capacity, in a table with a live and a deleted
\* entity.
C15_Witness ==
    /\ lastOp.op = "isAlive"
    /\ lastOp.id >= currentCapacity
    /\ lastOp.ret = FALSE
    /\ ~lastOp.fault
    /\ LiveIds # {}
    /\ \E i \in 0..(currentSize - 1) : ~entities[i].alive

\* The signature a stored closure was added with, read back from its bitset.
signatureOf(closure) == {k \in Combined : closure.signatureBitset[k]}

\* The calls forMatchingSignature<signatureOf(closure)>(closure.function)
\* makes on the table as it is now.
DirectCalls(closure) ==
    LET scan == matchingScan(0, generateBitset(signatureOf(closure)), << >>)
    IN [m \in 1..Len(scan) |->
          [function |-> closure.function, id |-> scan[m].id,
           data |-> scan[m].data]]

\* The direct calls for the stored closures from the n-th on, in the order
\* they were stored.
RECURSIVE DirectCallsFrom(_)
DirectCallsFrom(n) ==
    IF n > Len(forMatchingFunctions) THEN << >>
    ELSE DirectCalls(forMatchingFunctions[n]) \o DirectCallsFrom(n + 1)

\* C14: the calls callForMatchingFunctions() makes (function, identifier,
\* component values, in order) are those of forMatchingSignature called
\* directly, once for each stored function in the order they were stored, on
\* the table as it is at the time of the call.
C14_StoredCallsAreDirectCalls ==
    lastOp.op = "callForMatchingFunctions" => lastOp.calls = DirectCallsFrom(1)

\* C14 witness: two functions were stored while the table was empty, the
\* entities were created and given a component since, one was deleted, and
\* callForMatchingFunctions() has called both functions for the live entity
\* with a value other than the default.
C14_Witness ==
    /\ lastOp.op = "callForMatchingFunctions"
    /\ Len(forMatchingFunctions) = 2
    /\ \A n \in 1..2 : forMatchingFunctions[n].addedWhenEmpty
    /\ forMatchingFunctions[1].function # forMatchingFunctions[2].function
    /\ Len(lastOp.calls) = 2
    /\ lastOp.calls[1].function = forMatchingFunctions[1].function
    /\ lastOp.calls[2].function = forMatchingFunctions[2].function
    /\ \E c \in ComponentsList :
          /\ c \in DOMAIN lastOp.calls[1].data
          /\ lastOp.calls[1].data[c] # DefaultValue
    /\ \E i \in 0..(currentSize - 1) :
          ~entities[i].alive /\ hasComponent(i, "C0")

\* C16: ContainsAll<A, B>::value is true exactly when every type of A is a
\* type of B; so it is true for the empty A and for A = B, and false when a
\* type of A is missing from B.
C16_ContainsAllIsSubset ==
    lastOp.op = "ContainsAll" =>
        /\ contains = (\A n \in 1..Len(listA) :
                          \E m \in 1..Len(listB) : listA[n] = listB[m])
        /\ listA = << >> => contains
        /\ listA = listB => contains
        /\ (\E n \in 1..Len(listA) :
               \A m \in 1..Len(listB) : listA[n] # listB[m]) => ~contains

\* C16 witness: ContainsAll was evaluated to false for a list A whose first
\* type is in B and whose last type is not.
C16_Witness ==
    /\ lastOp.op = "ContainsAll"
    /\ Len(listA) >= 2
    /\ \E m \in 1..Len(listB) : listB[m] = listA[1]
    /\ \A m \in 1..Len(listB) : listB[m] # listA[Len(listA)]
    /\ contains = FALSE

\* C17: when cleanup() returns, the record of every index from currentSize up
\* to the capacity has an empty bitset.
C17_ReclaimedSlotsAreEmpty ==
    [][lastOp'.op = "cleanup" =>
          \A i \in currentSize'..(currentCapacity' - 1) :
             entities'[i].bits = EmptyBitset]_vars

\* C18: the record of every index from currentSize up to the capacity is not
\* alive.
C18_NoLiveRecordBeyondSize ==
    \A i \in currentSize..(currentCapacity - 1) : ~entities[i].alive

\* C18 witness: cleanup() has swapped records and shrunk the table: a live
\* entity sits at an identifier other than its dataIndex, and a record that
\* was alive once lies beyond currentSize.
C18_Witness ==
    /\ lastOp.op = "cleanup"
    /\ currentSize < currentCapacity
    /\ \E i \in LiveIds : entities[i].dataIndex # i
    /\ \E i \in currentSize..(currentCapacity - 1) : entities[i].dataIndex # i

\* C19: removeComponent<K>(id) on a live entity clears the K bit of record id
\* and changes nothing else: the K value in id's slot, the other bits of id,
\* its alive flag and dataIndex, the other records, the storage, currentSize
\* and the capacity are as before.
C19_RemoveComponentFrame ==
    [][\A id \in LiveIds, c \in ComponentsList :
          (lastOp'.op = "removeComponent" /\ lastOp'.id = id /\ lastOp'.kind = c) =>
             /\ ~entities'[id].bits[c]
             /\ \A k \in Combined \ {c} : entities'[id].bits[k] = entities[id].bits[k]
             /\ entities'[id].alive = entities[id].alive
             /\ entities'[id].dataIndex = entities[id].dataIndex
             /\ componentsStorage'[c][entities[id].dataIndex] = getEntityData(id, c)
             /\ \A j \in (DOMAIN entities) \ {id} : entities'[j] = entities[j]
             /\ DOMAIN entities' = DOMAIN entities
             /\ componentsStorage' = componentsStorage
             /\ currentSize' = currentSize
             /\ currentCapacity' = currentCapacity]_vars

\* C19 witness: removeComponent() has just cleared the component bit of a live
\* entity that keeps its tag, and the value in its slot is still one other
\* than the default.
C19_Witness ==
    /\ lastOp.op = "removeComponent"
    /\ isAlive(lastOp.id)
    /\ ~hasComponent(lastOp.id, lastOp.kind)
    /\ hasTag(lastOp.id, "T0")
    /\ getEntityData(lastOp.id, lastOp.kind) # DefaultValue

\* C20: cleanup() leaves a live entity (followed by its dataIndex) at its
\* identifier or moves it to a smaller identifier whose entity was not alive
\* before the call, and leaves it at its identifier when every smaller
\* identifier was alive.
C20_SurvivorsMoveOnlyIntoTombstones ==
    [][lastOp'.op = "cleanup" =>
          \A i \in LiveIds :
             \E j \in LiveIdsOf(entities', currentSize') :
                /\ entities'[j].dataIndex = entities[i].dataIndex
                /\ j = i \/ (j < i /\ ~entities[j].alive)
                /\ (\A d \in 0..(i - 1) : entities[d].alive) => j = i]_vars

\* C20 witness: of the entities 0, 1, 2 the middle one was deleted and
\* cleanup() has left entity 0 at 0 and moved entity 2 to 1.
C20_Witness ==
    /\ lastOp.op = "cleanup"
    /\ currentSize = 2
    /\ LiveIds = {0, 1}
    /\ entities[0].dataIndex = 0
    /\ entities[1].dataIndex = 2

\* C21: currentSize never exceeds the capacity; no call lowers the capacity;
\* addEntity() raises it, by the growth amount, exactly when currentSize was
\* the capacity, and only addEntity() raises it; a growth leaves every record
\* and every stored value there was as it was (but for the alive flag of the
\* slot addEntity() hands out) and makes each new slot i a record with
\* dataIndex i and an empty bitset, dead unless it is the slot handed out.
C21_CapacityGrowsByIncrement ==
    [][/\ currentSize' <= currentCapacity'
       /\ currentCapacity' >= currentCapacity
       /\ lastOp'.op # "addEntity" => currentCapacity' = currentCapacity
       /\ lastOp'.op = "addEntity" =>
             /\ currentCapacity' =
                   IF currentSize = currentCapacity
                   THEN currentCapacity + GrowSizeAmount
                   ELSE currentCapacity
             /\ DOMAIN entities' = 0..(currentCapacity' - 1)
             /\ \A c \in ComponentsList :
                   DOMAIN componentsStorage'[c] = 0..(currentCapacity' - 1)
             /\ \A i \in 0..(currentCapacity - 1) :
                   /\ entities'[i].dataIndex = entities[i].dataIndex
                   /\ entities'[i].bits = entities[i].bits
                   /\ i # lastOp'.ret => entities'[i].alive = entities[i].alive
                   /\ \A c \in ComponentsList :
                         componentsStorage'[c][i] = componentsStorage[c][i]
             /\ \A i \in currentCapacity..(currentCapacity' - 1) :
                   /\ entities'[i].dataIndex = i
                   /\ entities'[i].bits = EmptyBitset
                   /\ entities'[i].alive = (i = lastOp'.ret)]_vars

\* C21 witness: addEntity() has just grown a full table: the identifier it
\* returned is the capacity before the call, a slot allocated with it lies
\* beyond currentSize, and an older entity is alive with its tag and a
\* component value other than the default.
C21_Witness ==
    /\ lastOp.op = "addEntity"
    /\ lastOp.ret = currentCapacity - GrowSizeAmount
    /\ currentSize < currentCapacity
    /\ \E i \in LiveIds \ {lastOp.ret} :
          /\ hasTag(i, "T0")
          /\ hasComponent(i, "C0")
          /\ getEntityData(i, "C0") # DefaultValue

\* While cleanup() runs, rhs and lhs are indices below currentSize, which is
\* still the value from before the call, and lhs is at most rhs + 1: the
\* records read and written (entities[rhs] in the inner loop, entities[lhs]
\* and entities[rhs] in the if) lie in [0, currentSize).
CleanupPointersInRange ==
    cleanupPc # "idle" =>
        /\ cleanupRhs \in 0..(currentSize - 1)
        /\ cleanupLhs \in 0..(currentSize - 1)
        /\ cleanupLhs <= cleanupRhs + 1

\* Within a call, rhs changes only by a decrement from a value above 0 and
\* currentSize does not change.
CleanupRhsStep ==
    (cleanupPc # "idle" /\ cleanupPc' # "idle") =>
        /\ currentSize' = currentSize
        /\ cleanupRhs' # cleanupRhs =>
              (cleanupRhs > 0 /\ cleanupRhs' = cleanupRhs - 1)

\* C22: cleanup() returns from every table it is called on, and while it runs
\* it reads and writes only records at indices below the currentSize of
\* before the call: rhs is never decremented below 0 and lhs is never more
\* than rhs + 1.
C22_CleanupTerminatesInBounds ==
    /\ []CleanupPointersInRange
    /\ [][CleanupRhsStep]_vars
    /\ (cleanupPc # "idle") ~> (cleanupPc = "idle")

\* C22 witness: in a cleanup() of three entities the swap of identifiers 0
\* and 1 has just left lhs at rhs + 1, with the entity beyond them dead.
C22_Witness ==
    /\ cleanupPc = "outer"
    /\ currentSize = 3
    /\ cleanupLhs = cleanupRhs + 1
    /\ entities[0].alive
    /\ ~entities[1].alive /\ ~entities[2].alive

=============================================================================
